---- MODULE Spec2Model ----
(***************************************************************************)
(* A model of the devbox environment orchestrator (src/devbox.go): the     *)
(* Devbox operations Add, Remove, Build, Generate, Shell and Exec, the     *)
(* upward lookup of devbox.json (findConfigDir / Open), and the build plan *)
(* derived from the Config (convertToPlan / BuildPlan).                    *)
(*                                                                         *)
(* Every operation is one action: the whole handler, with the outcomes of  *)
(* its external collaborators (file writes, nix-env, docker, the planner)  *)
(* drawn nondeterministically.  What a call did is recorded in `call`:     *)
(* the functions it reached in order (log), the artifact sets it wrote     *)
(* (wrote) and the error it returned (err).                                *)
(***************************************************************************)
EXTENDS Integers, Sequences, FiniteSets, TLC

(* ------------------------------ bounds --------------------------------- *)

\* Longest argument list of one Add or Remove call.
MaxArgs == 2

\* Longest list of path components in the directory given to Open.
MaxDepth == 2

\* Longest package list of an inferred plan.
MaxPlanPkgs == 2

(* ------------------------------ values --------------------------------- *)

\* The package identifiers the Package Index knows, and all identifiers used.
Index == {"git", "go"}
AllPkgs == Index \cup {"nonexistent"}

NoErr == "none"

RECURSIVE SeqsUpTo(_, _)
SeqsUpTo(S, n) ==
  IF n = 0 THEN {<<>>}
  ELSE LET shorter == SeqsUpTo(S, n - 1) IN
       shorter \cup {Append(s, x) : s \in {t \in shorter : Len(t) = n - 1}, x \in S}

Range(s) == {s[i] : i \in 1..Len(s)}

NoDuplicates(s) == \A i, j \in 1..Len(s) : s[i] = s[j] => i = j

Count(s, x) == Cardinality({i \in 1..Len(s) : s[i] = x})

VARIABLES
  cfg,      \* Devbox.cfg: the in-memory Config
  disk,     \* the Config persisted in devbox.json
  call,     \* the last invocation: [op, pkgs, err, log, wrote]
  pre,      \* cfg.Packages when the last invocation started
  again,    \* the last invocation repeats the one before (same op, same pkgs)
  dir,      \* Open: the directory argument [abs, comps]
  wd,       \* Open: the process working directory (os.Getwd)
  fs,       \* Open: the directories that contain devbox.json
  cur,      \* findConfigDir: the loop variable
  fpc,      \* findConfigDir / Open: position
  fres,     \* findConfigDir / Open: result [err, dir]
  iters,    \* findConfigDir: loop iterations taken
  inferred, \* BuildPlan: the plan planner.GetBuildPlan returns
  planned,  \* BuildPlan: its result [err, plan]
  ctx,      \* shellrc.tmpl: the data the template is executed with
  shellrc   \* shellrc.tmpl: the rendered file, its non-blank lines

vars == <<cfg, disk, call, pre, again, dir, wd, fs, cur, fpc, fres, iters,
          inferred, planned, ctx, shellrc>>

orchVars == <<cfg, disk, call, pre, again>>
findVars == <<dir, wd, fs, cur, fpc, fres, iters>>
planVars == <<inferred, planned>>
renderVars == <<ctx, shellrc>>

(* ------------------------------ shellrc.tmpl --------------------------- *)

\* The rendered file is the list of its non-blank lines, and a line is the
\* list of its pieces: the template's own text and the fields substituted in.

\* The data of one execution of the template.  An absent field is "".
Contexts ==
  [OriginalInit : {"", "alias ll='ls -l'"},
   OriginalInitPath : {"~/.bashrc"},
   PathPrepend : {"/proj/.devbox/nix/profile/default/bin"},
   HistoryFile : {"", "/proj/.devbox/shell_history"},
   UserHook : {"", "echo hello", "source .env"},
   ConfigDir : {"/proj"},
   PlanInitHook : {"", "export NODE_ENV=dev", "nvm use"},
   ScriptCommand : {"", "npm start"}]

NoContext ==
  [OriginalInit |-> "", OriginalInitPath |-> "", PathPrepend |-> "",
   HistoryFile |-> "", UserHook |-> "", ConfigDir |-> "", PlanInitHook |-> "",
   ScriptCommand |-> ""]

\* {{ if .Field }}: a string field is true when it is not empty.
Set(field) == field # ""

\* Lines 19-27: the user's own shellrc, between its markers.
OriginalInitBlock(c) ==
  IF Set(c.OriginalInit)
  THEN << <<"# Begin ", c.OriginalInitPath>>,
          <<c.OriginalInit>>,
          <<"# End ", c.OriginalInitPath>> >>
  ELSE <<>>

\* Lines 29-40: the post-init hook, outside every condition but HISTFILE's.
PostInitBlock(c) ==
  << <<"# Begin Devbox Post-init Hook">>,
     <<"PATH=\"", c.PathPrepend, ":$PATH\"">> >>
  \o (IF Set(c.HistoryFile) THEN << <<"HISTFILE=", c.HistoryFile>> >> ELSE <<>>)
  \o << <<"# Prepend to the prompt to make it clear we're in a devbox shell.">>,
        <<"export PS1=\"(devbox) $PS1\"">>,
        <<"# End Devbox Post-init Hook">> >>

\* Lines 42-56: the user hook; its markers are inside the condition.
UserHookBlock(c) ==
  IF Set(c.UserHook)
  THEN << <<"# Begin Devbox User Hook">>,
          <<"# Switch to the directory where devbox.json config is">>,
          <<"workingDir=$(pwd)">>,
          <<"cd ", c.ConfigDir>>,
          <<c.UserHook>>,
          <<"cd $workingDir">>,
          <<"# End Devbox User Hook">> >>
  ELSE <<>>

\* Lines 58-66: the plan init hook; its markers are outside the condition.
PlanInitHookBlock(c) ==
  << <<"# Begin Plan Init Hook">> >>
  \o (IF Set(c.PlanInitHook) THEN << <<c.PlanInitHook>> >> ELSE <<>>)
  \o << <<"# End Plan Init Hook">> >>

\* Lines 68-83: the run_script function; its markers are outside the condition.
ScriptCommandBlock(c) ==
  << <<"# Begin Script command">> >>
  \o (IF Set(c.ScriptCommand)
      THEN << <<"function run_script {">>,
              <<"workingDir=$(pwd)">>,
              <<"cd ", c.ConfigDir>>,
              <<c.ScriptCommand>>,
              <<"cd $workingDir">>,
              <<"}">> >>
      ELSE <<>>)
  \o << <<"# End Script command">> >>

\* The template executed with c.
Render(c) ==
  OriginalInitBlock(c) \o PostInitBlock(c) \o UserHookBlock(c)
    \o PlanInitHookBlock(c) \o ScriptCommandBlock(c)

RenderIdle == ctx = NoContext /\ shellrc = <<>>

(* --------------------------- Config and Plan --------------------------- *)

\* A Config stage is a *Stage: nil, or a Stage with its Command list.
NilStage == [nil |-> TRUE, Command |-> <<>>]
ConfigStage(cmds) == [nil |-> FALSE, Command |-> cmds]
ConfigStages == {NilStage, ConfigStage(<<>>), ConfigStage(<<"make", "make test">>)}

\* The duplicate-free package lists over the Package Index.
PkgLists == {s \in SeqsUpTo(Index, Cardinality(Index)) : NoDuplicates(s)}

Configs == [Packages : PkgLists, InstallStage : ConfigStages,
            BuildStage : ConfigStages, StartStage : ConfigStages]

\* The identifiers and stages an inferred plan is built from.
PlanPkgs == {"git", "nodejs"}
PlanStages == {[Command |-> <<>>], [Command |-> <<"npm run build">>]}

\* What planner.GetBuildPlan may return; conflict and warning are what the
\* merged plan will report through Invalid(), Error() and Warning().
InferredPlans ==
  [DevPackages : SeqsUpTo(PlanPkgs, MaxPlanPkgs),
   RuntimePackages : {<<>>, <<"nodejs">>},
   InstallStage : PlanStages, BuildStage : PlanStages, StartStage : PlanStages,
   conflict : {"none", "invalid", "error"},
   warning : BOOLEAN]

NoPlan == [DevPackages |-> <<>>, RuntimePackages |-> <<>>,
           InstallStage |-> [Command |-> <<>>], BuildStage |-> [Command |-> <<>>],
           StartStage |-> [Command |-> <<>>], invalid |-> FALSE, warning |-> FALSE]

NoInferred == [DevPackages |-> <<>>, RuntimePackages |-> <<>>,
               InstallStage |-> [Command |-> <<>>], BuildStage |-> [Command |-> <<>>],
               StartStage |-> [Command |-> <<>>], conflict |-> "none", warning |-> FALSE]

\* slices.Contains
Contains(s, x) == \E i \in 1..Len(s) : s[i] = x

\* nix.PkgExists: the Package Index's answer.
PkgExists(pkg) == pkg \in Index

\* The append loop of Add: each requested package not yet in the list is
\* appended, in argument order, testing against the list as it grows.
RECURSIVE AppendMissingDup(_, _)
AppendMissingDup(packages, pkgs) ==
  IF pkgs = <<>> THEN packages
  ELSE AppendMissingDup(Append(packages, Head(pkgs)), Tail(pkgs))

RECURSIVE AppendMissing(_, _)
AppendMissing(packages, pkgs) ==
  IF pkgs = <<>> THEN packages
  ELSE IF Contains(packages, Head(pkgs))
       THEN AppendMissing(packages, Tail(pkgs))
       ELSE AppendMissing(Append(packages, Head(pkgs)), Tail(pkgs))

\* Add, up to the save: every requested package is checked against the
\* Package Index before any is appended.
RECURSIVE AddPackagesInOneLoop(_, _)
AddPackagesInOneLoop(packages, pkgs) ==
  IF pkgs = <<>> THEN [ok |-> TRUE, packages |-> packages]
  ELSE IF ~PkgExists(Head(pkgs)) THEN [ok |-> FALSE, packages |-> packages]
  ELSE AddPackagesInOneLoop(AppendMissing(packages, <<Head(pkgs)>>), Tail(pkgs))

AddPackages(packages, pkgs) ==
  IF \E i \in 1..Len(pkgs) : ~PkgExists(pkgs[i])
  THEN [ok |-> FALSE, packages |-> packages]
  ELSE [ok |-> TRUE, packages |-> AppendMissing(packages, pkgs)]

\* pkgslice.Exclude: the elements of packages that are not in pkgs, in order.
Exclude(packages, pkgs) == SelectSeq(packages, LAMBDA x : ~Contains(pkgs, x))

\* convertToPlan: the user plan of a Config.  A nil stage becomes an empty
\* plan stage; a non-nil stage keeps its Command.
convertToPlanSwapped(c) ==
  LET configStages == <<c.BuildStage, c.InstallStage, c.StartStage>>
      planStages == [i \in 1..3 |->
                       IF ~configStages[i].nil
                       THEN [Command |-> configStages[i].Command]
                       ELSE [Command |-> <<>>]]
  IN [DevPackages |-> c.Packages, RuntimePackages |-> c.Packages,
      InstallStage |-> planStages[1], BuildStage |-> planStages[2],
      StartStage |-> planStages[3]]

convertToPlanNoPackages(c) ==
  LET configStages == <<c.InstallStage, c.BuildStage, c.StartStage>>
      planStages == [i \in 1..3 |->
                       IF ~configStages[i].nil
                       THEN [Command |-> configStages[i].Command]
                       ELSE [Command |-> <<>>]]
  IN [DevPackages |-> <<>>, RuntimePackages |-> c.Packages,
      InstallStage |-> planStages[1], BuildStage |-> planStages[2],
      StartStage |-> planStages[3]]

convertToPlan(c) ==
  LET configStages == <<c.InstallStage, c.BuildStage, c.StartStage>>
      planStages == [i \in 1..3 |->
                       IF ~configStages[i].nil
                       THEN [Command |-> configStages[i].Command]
                       ELSE [Command |-> <<>>]]
  IN [DevPackages |-> c.Packages, RuntimePackages |-> c.Packages,
      InstallStage |-> planStages[1], BuildStage |-> planStages[2],
      StartStage |-> planStages[3]]

\* A stage with an empty command sequence is absent.
Absent(stage) == stage.Command = <<>>

\* The union of package lists: first occurrences, in order.
RECURSIVE Unique(_)
Unique(s) ==
  IF s = <<>> THEN <<>>
  ELSE LET front == Unique(SubSeq(s, 1, Len(s) - 1)) IN
       IF Contains(front, s[Len(s)]) THEN front ELSE Append(front, s[Len(s)])

\* The user's stage replaces the inferred one whole when it is not absent.
mergeUserStage(userStage, stage) == IF Absent(userStage) THEN stage ELSE userStage

\* plansdk.MergeUserPlan: (plan, err).
MergeUserPlan(userPlan, automatedPlan) ==
  IF automatedPlan.conflict = "error"
  THEN [err |-> "MergeUserPlan", plan |-> NoPlan]
  ELSE [err |-> NoErr,
        plan |-> [DevPackages |->
                    Unique(userPlan.DevPackages \o automatedPlan.DevPackages),
                  RuntimePackages |->
                    Unique(userPlan.RuntimePackages \o automatedPlan.RuntimePackages),
                  InstallStage |->
                    mergeUserStage(userPlan.InstallStage, automatedPlan.InstallStage),
                  BuildStage |->
                    mergeUserStage(userPlan.BuildStage, automatedPlan.BuildStage),
                  StartStage |->
                    mergeUserStage(userPlan.StartStage, automatedPlan.StartStage),
                  invalid |-> automatedPlan.conflict = "invalid",
                  warning |-> automatedPlan.warning]]

\* Devbox.BuildPlan: the user plan merged with the planner's plan; getOK is
\* whether planner.GetBuildPlan returned without error.
BuildPlan(c, automatedPlan, getOK) ==
  IF ~getOK THEN [err |-> "GetBuildPlan", plan |-> NoPlan]
  ELSE MergeUserPlan(convertToPlan(c), automatedPlan)

(* ------------------------- steps of an operation ----------------------- *)

\* How one call of generate() ends: every file written, an error after some
\* files were written, or an error before any file was written.
GenOutcomes == {"ok", "partial", "fail"}

\* What a step reports: the error it returns, the functions it reached, in
\* order, and the artifact sets it wrote files of.
Step(err, log, wrote) == [err |-> err, log |-> log, wrote |-> wrote]

\* generateShellFiles: generate(srcDir, ShellPlan(), shellFiles).
generateShellFiles(gen) ==
  Step(IF gen = "ok" THEN NoErr ELSE "generate",
       <<"generateShellFiles">>,
       IF gen = "fail" THEN {} ELSE {"shellFiles"})

\* applyDevNixDerivation: profileDir(), then one run of nix-env --install.
applyDevNixDerivation(mkdirOK, nixOK) ==
  IF ~mkdirOK THEN Step("profileDir", <<"applyDevNixDerivation">>, {})
  ELSE Step(IF nixOK THEN NoErr ELSE "nix-env",
            <<"applyDevNixDerivation", "nix-env">>, {})

\* ensurePackagesAreInstalled: shell files first, the installer only after
\* they were generated.
ensureInstallsFirst(gen, mkdirOK, nixOK) ==
  LET a == applyDevNixDerivation(mkdirOK, nixOK)
      g == generateShellFiles(gen)
  IN IF a.err # NoErr
     THEN Step("apply Nix derivation", <<"ensurePackagesAreInstalled">> \o a.log, {})
     ELSE Step(g.err, <<"ensurePackagesAreInstalled">> \o a.log \o g.log, g.wrote)

ensurePackagesAreInstalled(gen, mkdirOK, nixOK) ==
  LET g == generateShellFiles(gen)
      a == applyDevNixDerivation(mkdirOK, nixOK)
  IN IF g.err # NoErr
     THEN Step(g.err, <<"ensurePackagesAreInstalled">> \o g.log, g.wrote)
     ELSE Step(IF a.err # NoErr THEN "apply Nix derivation" ELSE NoErr,
               <<"ensurePackagesAreInstalled">> \o g.log \o a.log, g.wrote)

\* printPackageUpdateMessage: the message is written only for a non-empty
\* argument list inside a devbox shell; it never fails.
printPackageUpdateMessage(pkgs, shellEnabled) ==
  Step(NoErr,
       IF Len(pkgs) > 0 /\ shellEnabled
       THEN <<"printPackageUpdateMessage", "message">>
       ELSE <<"printPackageUpdateMessage">>,
       {})

\* generateBuildFiles: the merged plan, refused when the merge fails or the
\* plan is invalid, a warning printed, then generate(srcDir, plan, buildFiles).
generateBuildFilesLateCheck(c, automatedPlan, getOK, gen) ==
  LET bp == BuildPlan(c, automatedPlan, getOK) IN
  IF bp.err # NoErr /\ bp.err # "MergeUserPlan"
  THEN Step(bp.err, <<"generateBuildFiles", "BuildPlan">>, {})
  ELSE IF gen # "ok"
  THEN Step("generate", <<"generateBuildFiles", "BuildPlan", "generate">>,
            IF gen = "fail" THEN {} ELSE {"buildFiles"})
  ELSE Step(IF bp.err # NoErr THEN bp.err
            ELSE IF bp.plan.invalid THEN "plan.Error" ELSE NoErr,
            <<"generateBuildFiles", "BuildPlan", "generate">>, {"buildFiles"})

generateBuildFilesWarningFatal(c, automatedPlan, getOK, gen) ==
  LET bp == BuildPlan(c, automatedPlan, getOK) IN
  IF bp.err # NoErr
  THEN Step(bp.err, <<"generateBuildFiles", "BuildPlan">>, {})
  ELSE IF bp.plan.invalid
  THEN Step("plan.Error", <<"generateBuildFiles", "BuildPlan">>, {})
  ELSE IF bp.plan.warning
  THEN Step("plan.Warning", <<"generateBuildFiles", "BuildPlan", "warning">>, {})
  ELSE Step(IF gen = "ok" THEN NoErr ELSE "generate",
            <<"generateBuildFiles", "BuildPlan", "generate">>,
            IF gen = "fail" THEN {} ELSE {"buildFiles"})

generateBuildFiles(c, automatedPlan, getOK, gen) ==
  LET bp == BuildPlan(c, automatedPlan, getOK) IN
  IF bp.err # NoErr
  THEN Step(bp.err, <<"generateBuildFiles", "BuildPlan">>, {})
  ELSE IF bp.plan.invalid
  THEN Step("plan.Error", <<"generateBuildFiles", "BuildPlan">>, {})
  ELSE Step(IF gen = "ok" THEN NoErr ELSE "generate",
            <<"generateBuildFiles", "BuildPlan">>
              \o (IF bp.plan.warning THEN <<"warning">> ELSE <<>>)
              \o <<"generate">>,
            IF gen = "fail" THEN {} ELSE {"buildFiles"})

\* s, then t when s returned no error.
Then(s, t) ==
  IF s.err # NoErr THEN s
  ELSE Step(t.err, s.log \o t.log, s.wrote \cup t.wrote)

Called(op, pkgs, s) ==
  [op |-> op, pkgs |-> pkgs, err |-> s.err, log |-> s.log, wrote |-> s.wrote]

(* ------------------------------ operations ----------------------------- *)

ArgLists == SeqsUpTo(AllPkgs, MaxArgs)

\* The outcomes of the external collaborators during one call.  A collaborator
\* that is not reached (an earlier one failed) has no outcome of its own: it is
\* listed as succeeding.
InstallEnvs ==
  {e \in [gen : GenOutcomes, mkdirOK : BOOLEAN, nixOK : BOOLEAN] :
     /\ e.gen # "ok" => e.mkdirOK /\ e.nixOK
     /\ ~e.mkdirOK => e.nixOK}

Installed(e) == e.gen = "ok" /\ e.mkdirOK /\ e.nixOK

EditEnvs ==
  {e \in [saveOK : BOOLEAN, install : InstallEnvs, shellEnabled : BOOLEAN] :
     /\ ~e.saveOK => Installed(e.install)
     /\ ~(e.saveOK /\ Installed(e.install)) => e.shellEnabled}

RunEnvs ==
  {e \in [install : InstallEnvs, mkdirOK : BOOLEAN, runOK : BOOLEAN] :
     /\ ~Installed(e.install) => e.mkdirOK /\ e.runOK
     /\ ~e.mkdirOK => e.runOK}

\* The planner's answers the orchestrator is run against.
PlannerPlans ==
  {p \in InferredPlans :
     /\ p.DevPackages = <<"nodejs">> /\ p.RuntimePackages = <<"nodejs">>
     /\ Absent(p.InstallStage) /\ ~Absent(p.BuildStage) /\ Absent(p.StartStage)}

BuildEnvs ==
  {e \in [plan : PlannerPlans, getOK : BOOLEAN, gen : GenOutcomes, lastOK : BOOLEAN] :
     /\ ~e.getOK => e.plan.conflict = "none" /\ ~e.plan.warning
     /\ (~e.getOK \/ e.plan.conflict # "none") => e.gen = "ok"
     /\ (~e.getOK \/ e.plan.conflict # "none" \/ e.gen # "ok") => e.lastOK}

\* saveCfg: the whole Config rewritten in devbox.json.
saveCfg(saveOK) == Step(IF saveOK THEN NoErr ELSE "saveCfg", <<"saveCfg">>, {})

\* The plan of the current call: what BuildPlan returned to it, if the call
\* reached BuildPlan.  A plan is built anew by every call and kept by none.
NotPlanned == [done |-> FALSE, err |-> NoErr, plan |-> NoPlan]
Planned(bp) == [done |-> TRUE, err |-> bp.err, plan |-> bp.plan]

\* Devbox.Add
AddSavesLast(pkgs) ==
  \E e \in EditEnvs :
    LET r == AddPackages(cfg.Packages, pkgs)
        c == [cfg EXCEPT !.Packages = r.packages]
        i == ensurePackagesAreInstalled(e.install.gen, e.install.mkdirOK,
                                        e.install.nixOK)
        s == IF ~r.ok THEN Step("package not found", <<>>, {})
             ELSE Then(i,
                  Then(saveCfg(e.saveOK),
                       printPackageUpdateMessage(pkgs, e.shellEnabled)))
    IN /\ pre' = cfg.Packages
       /\ again' = (call.op = "Add" /\ call.pkgs = pkgs)
       /\ cfg' = c
       /\ disk' = IF r.ok /\ i.err = NoErr /\ e.saveOK THEN c ELSE disk
       /\ call' = Called("Add", pkgs, s)
       /\ planned' = NotPlanned
       /\ UNCHANGED <<findVars, inferred, renderVars>>

Add(pkgs) ==
  \E e \in EditEnvs :
    LET r == AddPackages(cfg.Packages, pkgs)
        c == [cfg EXCEPT !.Packages = r.packages]
        s == IF ~r.ok THEN Step("package not found", <<>>, {})
             ELSE Then(saveCfg(e.saveOK),
                  Then(ensurePackagesAreInstalled(e.install.gen, e.install.mkdirOK,
                                                  e.install.nixOK),
                       printPackageUpdateMessage(pkgs, e.shellEnabled)))
    IN /\ pre' = cfg.Packages
       /\ again' = (call.op = "Add" /\ call.pkgs = pkgs)
       /\ cfg' = c
       /\ disk' = IF r.ok /\ e.saveOK THEN c ELSE disk
       /\ call' = Called("Add", pkgs, s)
       /\ planned' = NotPlanned
       /\ UNCHANGED <<findVars, inferred, renderVars>>

\* Devbox.Remove
RemoveOnlyPresent(pkgs) ==
  \E e \in EditEnvs :
    LET c == [cfg EXCEPT !.Packages = Exclude(cfg.Packages, pkgs)]
        s == IF c = cfg THEN Step("package not found", <<>>, {})
             ELSE Then(saveCfg(e.saveOK),
                  Then(ensurePackagesAreInstalled(e.install.gen, e.install.mkdirOK,
                                                  e.install.nixOK),
                       printPackageUpdateMessage(pkgs, e.shellEnabled)))
    IN /\ pre' = cfg.Packages
       /\ again' = (call.op = "Remove" /\ call.pkgs = pkgs)
       /\ cfg' = c
       /\ disk' = IF c # cfg /\ e.saveOK THEN c ELSE disk
       /\ call' = Called("Remove", pkgs, s)
       /\ planned' = NotPlanned
       /\ UNCHANGED <<findVars, inferred, renderVars>>

Remove(pkgs) ==
  \E e \in EditEnvs :
    LET c == [cfg EXCEPT !.Packages = Exclude(cfg.Packages, pkgs)]
        s == Then(saveCfg(e.saveOK),
             Then(ensurePackagesAreInstalled(e.install.gen, e.install.mkdirOK,
                                             e.install.nixOK),
                  printPackageUpdateMessage(pkgs, e.shellEnabled)))
    IN /\ pre' = cfg.Packages
       /\ again' = (call.op = "Remove" /\ call.pkgs = pkgs)
       /\ cfg' = c
       /\ disk' = IF e.saveOK THEN c ELSE disk
       /\ call' = Called("Remove", pkgs, s)
       /\ planned' = NotPlanned
       /\ UNCHANGED <<findVars, inferred, renderVars>>

\* Devbox.Build
Build ==
  \E e \in BuildEnvs :
    LET s == Then(generateBuildFiles(cfg, e.plan, e.getOK, e.gen),
                  Step(IF e.lastOK THEN NoErr ELSE "docker.Build", <<"docker.Build">>, {}))
    IN /\ pre' = cfg.Packages
       /\ again' = (call.op = "Build")
       /\ call' = Called("Build", <<>>, s)
       /\ planned' = Planned(BuildPlan(cfg, e.plan, e.getOK))
       /\ UNCHANGED <<cfg, disk, findVars, inferred, renderVars>>

\* Devbox.Generate
Generate ==
  \E genS \in GenOutcomes, e \in BuildEnvs :
    LET s == Then(generateShellFiles(genS),
                  generateBuildFiles(cfg, e.plan, e.getOK, e.gen))
    IN /\ e.lastOK
       /\ pre' = cfg.Packages
       /\ again' = (call.op = "Generate")
       /\ call' = Called("Generate", <<>>, s)
       /\ planned' = IF genS = "ok" THEN Planned(BuildPlan(cfg, e.plan, e.getOK))
                     ELSE NotPlanned
       /\ UNCHANGED <<cfg, disk, findVars, inferred, renderVars>>

\* Devbox.Shell
Shell ==
  \E e \in RunEnvs :
    LET s == Then(ensurePackagesAreInstalled(e.install.gen, e.install.mkdirOK,
                                             e.install.nixOK),
             Then(Step(IF e.mkdirOK THEN NoErr ELSE "profileDir", <<"profileDir">>, {}),
                  Step(IF e.runOK THEN NoErr ELSE "sh.Run", <<"sh.Run">>, {})))
    IN /\ pre' = cfg.Packages
       /\ again' = (call.op = "Shell")
       /\ call' = Called("Shell", <<>>, s)
       /\ planned' = NotPlanned
       /\ UNCHANGED <<cfg, disk, findVars, inferred, renderVars>>

\* Devbox.Exec
Exec ==
  \E e \in RunEnvs :
    LET s == Then(ensurePackagesAreInstalled(e.install.gen, e.install.mkdirOK,
                                             e.install.nixOK),
             Then(Step(IF e.mkdirOK THEN NoErr ELSE "profileDir", <<"profileBinDir">>, {}),
                  Step(IF e.runOK THEN NoErr ELSE "nix.Exec", <<"nix.Exec">>, {})))
    IN /\ pre' = cfg.Packages
       /\ again' = (call.op = "Exec")
       /\ call' = Called("Exec", <<>>, s)
       /\ planned' = NotPlanned
       /\ UNCHANGED <<cfg, disk, findVars, inferred, renderVars>>

\* The find and plan variables while the orchestrator runs, and the reverse.
FindIdle ==
  /\ dir = [abs |-> TRUE, comps |-> <<>>] /\ wd = <<>> /\ fs = {} /\ cur = <<>>
  /\ fpc = "idle" /\ fres = [err |-> NoErr, dir |-> <<>>] /\ iters = 0

PlanIdle ==
  /\ inferred = NoInferred
  /\ planned = [done |-> FALSE, err |-> NoErr, plan |-> NoPlan]

\* The Configs the orchestrator is started with.
OpenedConfigs ==
  {c \in Configs :
     /\ c.InstallStage = NilStage /\ c.StartStage = ConfigStage(<<>>)
     /\ c.BuildStage \in {NilStage, ConfigStage(<<"make", "make test">>)}}

\* The Devbox that Open returns: the Config as read from devbox.json.
Init ==
  /\ cfg \in OpenedConfigs
  /\ disk = cfg
  /\ call = [op |-> "Open", pkgs |-> <<>>, err |-> NoErr, log |-> <<>>, wrote |-> {}]
  /\ pre = cfg.Packages
  /\ again = FALSE
  /\ FindIdle
  /\ PlanIdle
  /\ RenderIdle

Next ==
  \/ \E pkgs \in ArgLists : Add(pkgs)
  \/ \E pkgs \in ArgLists : Remove(pkgs)
  \/ Build
  \/ Generate
  \/ Shell
  \/ Exec

Spec == Init /\ [][Next]_vars

(* ------------------------- claims: Add and Remove ---------------------- *)

InLog(x) == Contains(call.log, x)

\* The position of the first x in the log; 0 when it is not there.
Pos(x) == IF InLog(x) THEN CHOOSE i \in 1..Len(call.log) :
                             call.log[i] = x /\ \A j \in 1..(i - 1) : call.log[j] # x
          ELSE 0

IsPrefix(s, t) == Len(s) <= Len(t) /\ SubSeq(t, 1, Len(s)) = s

\* The last call asked for no change of membership: an Add of packages that
\* were all in the list, or a Remove of packages none of which was.
MembershipUnchanged ==
  /\ call.op \in {"Add", "Remove"}
  /\ call.pkgs # <<>>
  /\ call.op = "Add" => \A i \in 1..Len(call.pkgs) : Contains(pre, call.pkgs[i])
  /\ call.op = "Remove" => \A i \in 1..Len(call.pkgs) : ~Contains(pre, call.pkgs[i])

\* C1: an Add of a package already in the list, and a Remove of a package not
\* in it, do not invoke the package installer.
C1_NoInstallWhenUnchanged == MembershipUnchanged => ~InLog("nix-env")

\* C1, where it fails: Add of a package that is already declared ran nix-env.
C1_InstallerRanOnDuplicateAdd ==
  /\ call.op = "Add" /\ MembershipUnchanged
  /\ cfg.Packages = pre
  /\ InLog("nix-env")

PlanConflict == call.err \in {"MergeUserPlan", "plan.Error"}

\* C2 as stated: a Generate or Build that ends with a plan conflict has written
\* no artifact file, neither a shell-environment file nor a build file.
C2_NoFileOnConflict ==
  (call.op \in {"Generate", "Build"} /\ PlanConflict) => call.wrote = {}

\* C2, amended: a Generate or Build that ends with a plan conflict has written
\* no build file; Build has written no file at all, and Generate has written
\* the shell-environment files, which it generates before the plan is merged.
C2_NoBuildFileOnConflict ==
  (call.op \in {"Generate", "Build"} /\ PlanConflict) =>
    /\ "buildFiles" \notin call.wrote
    /\ ~InLog("generate")
    /\ ~InLog("docker.Build")
    /\ call.op = "Build" => call.wrote = {}
    /\ call.op = "Generate" => call.wrote = {"shellFiles"}

C2_ConflictAfterShellFiles ==
  /\ call.op = "Generate" /\ call.err = "plan.Error"
  /\ call.wrote = {"shellFiles"}

\* C3: an Add with a requested package the Package Index does not know returns
\* an error, leaves the in-memory and the persisted Config as they were, and
\* reaches neither the save, nor the generation, nor the installer.
C3_AddAllOrNothing ==
  [][(/\ call'.op = "Add"
      /\ \E i \in 1..Len(call'.pkgs) : call'.pkgs[i] \notin Index)
     => /\ call'.err = "package not found"
        /\ cfg' = cfg
        /\ disk' = disk
        /\ call'.log = <<>>
        /\ call'.wrote = {}]_vars

\* An Add of a valid package followed by an unknown one, on a list that holds
\* neither: nothing was added.
C3_ValidBeforeInvalid ==
  /\ call.op = "Add" /\ Len(call.pkgs) = 2
  /\ call.pkgs[1] \in Index /\ call.pkgs[2] \notin Index
  /\ ~Contains(pre, call.pkgs[1])
  /\ cfg.Packages = pre
  /\ call.err = "package not found"

\* C4: no identifier occurs twice in the Config package list, in memory or
\* persisted.
C4_NoDuplicates == NoDuplicates(cfg.Packages) /\ NoDuplicates(disk.Packages)

\* One Add call named the same new package twice and it is in the list once.
C4_RepeatedInOneCall ==
  /\ call.op = "Add" /\ Len(call.pkgs) = 2 /\ call.pkgs[1] = call.pkgs[2]
  /\ ~Contains(pre, call.pkgs[1])
  /\ Count(cfg.Packages, call.pkgs[1]) = 1
  /\ disk.Packages = cfg.Packages

\* C5: the list after Add(p) followed by Add(p) is the list after the first
\* Add(p): the second call of a valid p changes nothing.
C5_AddIdempotent ==
  (/\ call.op = "Add" /\ again
   /\ Len(call.pkgs) = 1 /\ call.pkgs[1] \in Index)
  => cfg.Packages = pre

\* Add(p) ran twice in a row, p valid and in the list after the first.
C5_AddedTwice ==
  /\ call.op = "Add" /\ again
  /\ Len(call.pkgs) = 1 /\ call.pkgs[1] \in Index
  /\ Contains(cfg.Packages, call.pkgs[1])
  /\ call.err = NoErr

RemoveOfAbsent ==
  /\ call.op = "Remove" /\ Len(call.pkgs) = 1
  /\ ~Contains(pre, call.pkgs[1])

\* C6 as stated: a Remove of a package that is not in the list leaves the list
\* unchanged and returns no error.
C6_RemoveAbsentSucceeds ==
  RemoveOfAbsent => cfg.Packages = pre /\ call.err = NoErr

\* C6, amended: a Remove of a package that is not in the list leaves the list
\* unchanged and goes on to save, generate and install as any Remove does; it
\* returns an error only when one of these three fails, never for the absence.
C6_RemoveAbsentUnchanged ==
  RemoveOfAbsent =>
    /\ cfg.Packages = pre
    /\ InLog("saveCfg")
    /\ call.err \in {NoErr, "saveCfg", "generate", "apply Nix derivation"}
    /\ call.err = NoErr <=> InLog("printPackageUpdateMessage")
    /\ call.err = "saveCfg" <=> call.log[Len(call.log)] = "saveCfg"
    /\ call.err = "generate" <=> call.log[Len(call.log)] = "generateShellFiles"
    /\ call.err = "apply Nix derivation"
         <=> call.log[Len(call.log)] \in {"applyDevNixDerivation", "nix-env"}

C6_RemovedAbsent ==
  /\ RemoveOfAbsent /\ call.pkgs = <<"nonexistent">>
  /\ pre = <<"git">> /\ cfg.Packages = <<"git">>
  /\ call.err = NoErr

(* --------------------- claims: the order of the steps ------------------ *)

\* The steps of a whole call, in order.
StepsOf(op) ==
  IF op \in {"Add", "Remove"}
  THEN <<"saveCfg", "ensurePackagesAreInstalled", "generateShellFiles",
         "applyDevNixDerivation", "nix-env", "printPackageUpdateMessage", "message">>
  ELSE IF op = "Shell"
  THEN <<"ensurePackagesAreInstalled", "generateShellFiles",
         "applyDevNixDerivation", "nix-env", "profileDir", "sh.Run">>
  ELSE <<"ensurePackagesAreInstalled", "generateShellFiles",
         "applyDevNixDerivation", "nix-env", "profileBinDir", "nix.Exec">>

\* What a call does once the installer has succeeded.
AfterInstall == {"printPackageUpdateMessage", "message", "profileDir", "sh.Run",
                 "profileBinDir", "nix.Exec"}

\* C7: an Add, Remove, Shell or Exec runs save (Add and Remove), shell-file
\* generation and the installer in this order, each at most once; the installer
\* runs only after the shell files were generated; a failed installer ends the
\* call with an error; the message or the launch comes only after the installer.
C7_StepsInOrder ==
  call.op \in {"Add", "Remove", "Shell", "Exec"} =>
    /\ IsPrefix(call.log, StepsOf(call.op))
    /\ \A x \in Range(call.log) : Count(call.log, x) = 1
    /\ InLog("nix-env") =>
         /\ InLog("generateShellFiles") /\ Pos("generateShellFiles") < Pos("nix-env")
         /\ "shellFiles" \in call.wrote
    /\ call.err = "generate" => ~InLog("applyDevNixDerivation")
    /\ call.err = "saveCfg" => call.log = <<"saveCfg">>
    /\ call.err = "apply Nix derivation" =>
         call.log[Len(call.log)] \in {"applyDevNixDerivation", "nix-env"}
    /\ (call.log # <<>> /\ call.log[Len(call.log)] = "nix-env") =>
         call.err = "apply Nix derivation"
    /\ \A x \in AfterInstall : InLog(x) => InLog("nix-env") /\ Pos("nix-env") < Pos(x)

\* The installer failed in an Add after the save and the generation.
C7_InstallerFailed ==
  /\ call.op = "Add" /\ call.err = "apply Nix derivation"
  /\ call.log = <<"saveCfg", "ensurePackagesAreInstalled", "generateShellFiles",
                  "applyDevNixDerivation", "nix-env">>

(* ------------------------ Open and findConfigDir ----------------------- *)

\* A path is the list of its components; an absolute clean path is a list of
\* names below the root "/", which is the empty list.
Names == {"a", "b"}
Comps == Names \cup {".", ".."}

\* The directory arguments of Open: absolute or relative, not yet cleaned.
Dirs == [abs : BOOLEAN, comps : SeqsUpTo(Comps, MaxDepth)]

\* The working directories of the process (clean, absolute).
WorkDirs == {<<"a">>, <<"a", "b">>}

\* The directories that may hold a devbox.json.
FsDirs == {<<>>, <<"a">>, <<"b">>, <<"a", "a">>, <<"a", "b">>, <<"a", "b", "a">>}

\* filepath.Clean of base/comps, base clean and absolute: "." is dropped, ".."
\* drops the component before it and is itself dropped at the root.
RECURSIVE Clean(_, _)
Clean(base, comps) ==
  IF comps = <<>> THEN base
  ELSE IF Head(comps) = "." THEN Clean(base, Tail(comps))
  ELSE IF Head(comps) = ".."
       THEN Clean(IF base = <<>> THEN <<>> ELSE SubSeq(base, 1, Len(base) - 1),
                  Tail(comps))
  ELSE Clean(Append(base, Head(comps)), Tail(comps))

\* filepath.Abs: an absolute path is cleaned, a relative one is joined to the
\* working directory.
Abs(d, w) == IF d.abs THEN Clean(<<>>, d.comps) ELSE Clean(w, d.comps)

\* filepath.Dir of a clean absolute path: the parent; the root is its own.
Dir(path) == IF path = <<>> THEN <<>> ELSE SubSeq(path, 1, Len(path) - 1)

\* plansdk.FileExists(filepath.Join(path, configFilename))
FileExists(path) == path \in fs

\* findConfigDir, line 298: filepath.Abs fails when the working directory of
\* a relative path cannot be read.
FindAbs ==
  /\ fpc = "start"
  /\ \E getwdOK \in BOOLEAN :
       IF ~dir.abs /\ ~getwdOK
       THEN /\ fres' = [err |-> "Abs", dir |-> <<>>]
            /\ fpc' = "done"
            /\ UNCHANGED cur
       ELSE /\ getwdOK
            /\ cur' = Abs(dir, wd)
            /\ fpc' = "loop"
            /\ UNCHANGED fres
  /\ UNCHANGED <<dir, wd, fs, iters, orchVars, planVars, renderVars>>

\* The loop body, lines 303-309, when devbox.json is in cur.
FindHit ==
  /\ fpc = "loop" /\ cur # <<>>
  /\ FileExists(cur)
  /\ fres' = [err |-> NoErr, dir |-> cur]
  /\ fpc' = "read"
  /\ UNCHANGED <<dir, wd, fs, cur, iters, orchVars, planVars, renderVars>>

\* The loop body when it is not: up to the parent.
FindUp ==
  /\ fpc = "loop" /\ cur # <<>>
  /\ ~FileExists(cur)
  /\ cur' = Dir(cur)
  /\ iters' = iters + 1
  /\ UNCHANGED <<dir, wd, fs, fpc, fres, orchVars, planVars, renderVars>>

\* After the loop, lines 310-313: the root itself is tested.
FindRootUnchecked ==
  /\ fpc = "loop" /\ cur = <<>>
  /\ fres' = [err |-> "missingDevboxJSON", dir |-> <<>>]
  /\ fpc' = "done"
  /\ UNCHANGED <<dir, wd, fs, cur, iters, orchVars, planVars, renderVars>>

FindRoot ==
  /\ fpc = "loop" /\ cur = <<>>
  /\ IF FileExists(cur)
     THEN fres' = [err |-> NoErr, dir |-> cur] /\ fpc' = "read"
     ELSE fres' = [err |-> "missingDevboxJSON", dir |-> <<>>] /\ fpc' = "done"
  /\ UNCHANGED <<dir, wd, fs, cur, iters, orchVars, planVars, renderVars>>

\* Open, lines 64-76: the Config is read from the directory found.
OpenRead ==
  /\ fpc = "read"
  /\ \E readOK \in BOOLEAN :
       fres' = IF readOK THEN fres ELSE [err |-> "ReadConfig", dir |-> <<>>]
  /\ fpc' = "done"
  /\ UNCHANGED <<dir, wd, fs, cur, iters, orchVars, planVars, renderVars>>

OrchIdle ==
  /\ cfg = [Packages |-> <<>>, InstallStage |-> NilStage, BuildStage |-> NilStage,
            StartStage |-> NilStage]
  /\ disk = cfg
  /\ call = [op |-> "none", pkgs |-> <<>>, err |-> NoErr, log |-> <<>>, wrote |-> {}]
  /\ pre = <<>>
  /\ again = FALSE

InitFind ==
  /\ dir \in Dirs
  /\ wd \in WorkDirs
  /\ fs \in SUBSET FsDirs
  /\ cur = <<>>
  /\ fpc = "start"
  /\ fres = [err |-> NoErr, dir |-> <<>>]
  /\ iters = 0
  /\ OrchIdle
  /\ PlanIdle
  /\ RenderIdle

NextFind == FindAbs \/ FindHit \/ FindUp \/ FindRoot \/ OpenRead

SpecFind == InitFind /\ [][NextFind]_vars

\* The chain start, parent(start), ..., root of the directory Open was given.
Chain == {SubSeq(Abs(dir, wd), 1, k) : k \in 0..Len(Abs(dir, wd))}

\* The closest directory of the chain that holds devbox.json.
Nearest == CHOOSE d \in Chain \cap fs : \A e \in Chain \cap fs : Len(e) <= Len(d)

\* C8: findConfigDir returns the closest directory of the chain from the
\* starting directory to the root (root included) that holds devbox.json, Open
\* opens that directory, the not-found error is returned exactly when no
\* directory of the chain holds it, and the walk ends: it goes up at most once
\* per component of the starting directory and never stops half way.
C8_NearestConfigDir ==
  /\ iters <= Len(Abs(dir, wd))
  /\ fpc # "done" => ENABLED NextFind
  /\ (fpc \in {"read", "done"} /\ fres.err = NoErr) =>
       /\ Chain \cap fs # {}
       /\ fres.dir = Nearest
  /\ (fpc = "done" /\ fres.err = "ReadConfig") => Chain \cap fs # {}
  /\ fpc = "done" => (fres.err = "missingDevboxJSON" <=> (fres.err # "Abs" /\ Chain \cap fs = {}))

\* Open found devbox.json two directories above the starting directory, past a
\* sibling directory that holds one too.
C8_FoundInGrandparent ==
  /\ fpc = "done" /\ fres.err = NoErr
  /\ iters = 2
  /\ fres.dir # <<>>
  /\ \E d \in fs : d \notin Chain

(* ------------------------------ BuildPlan ------------------------------ *)

\* One call of Devbox.BuildPlan on the Config, against the planner's answer.
BuildPlanCall ==
  /\ ~planned.done
  /\ \E getOK \in BOOLEAN :
       LET bp == BuildPlan(cfg, inferred, getOK) IN
       planned' = [done |-> TRUE, err |-> bp.err, plan |-> bp.plan]
  /\ UNCHANGED <<inferred, orchVars, findVars, renderVars>>

InitPlan ==
  /\ cfg \in Configs
  /\ disk = cfg
  /\ call = [op |-> "Open", pkgs |-> <<>>, err |-> NoErr, log |-> <<>>, wrote |-> {}]
  /\ pre = cfg.Packages
  /\ again = FALSE
  /\ inferred \in InferredPlans
  /\ planned = [done |-> FALSE, err |-> NoErr, plan |-> NoPlan]
  /\ FindIdle
  /\ RenderIdle

NextPlan == BuildPlanCall

SpecPlan == InitPlan /\ [][NextPlan]_vars

Merged == planned.done /\ planned.err = NoErr

\* The user declared a build stage: the Config stage is neither nil nor empty.
UserDeclaresBuild == ~cfg.BuildStage.nil /\ cfg.BuildStage.Command # <<>>

\* C9: in the plan BuildPlan returns, the build stage is the Config's build
\* stage, whole, when the Config declares one (not nil, commands not empty),
\* whatever the inferred build stage holds; otherwise it is the inferred one.
C9_UserStageOverrides ==
  Merged =>
    IF UserDeclaresBuild
    THEN planned.plan.BuildStage = [Command |-> cfg.BuildStage.Command]
    ELSE planned.plan.BuildStage = inferred.BuildStage

\* The Config and the planner both declare a build stage, and only the
\* Config declares an install stage.
C9_BothDeclareBuild ==
  /\ Merged
  /\ UserDeclaresBuild /\ cfg.InstallStage.nil
  /\ ~Absent(inferred.BuildStage) /\ ~Absent(inferred.InstallStage)
  /\ planned.plan.BuildStage.Command = <<"make", "make test">>

\* The position of the first x in s.
First(s, x) == CHOOSE i \in 1..Len(s) : s[i] = x /\ \A j \in 1..(i - 1) : s[j] # x

\* C10: every identifier of the user's or of the inferred DevPackages is in
\* the merged DevPackages exactly once: the user's list first, in its order,
\* then the inferred entries that are not in it, in the inferred order.
C10_PackagesUnion ==
  Merged =>
    LET U == cfg.Packages
        I == inferred.DevPackages
        M == planned.plan.DevPackages
    IN /\ Range(M) = Range(U) \cup Range(I)
       /\ \A x \in Range(U) \cup Range(I) : Count(M, x) = 1
       /\ Len(M) >= Len(U) /\ SubSeq(M, 1, Len(U)) = U
       /\ \A i, j \in (Len(U) + 1)..Len(M) :
            i < j => First(I, M[i]) < First(I, M[j])

\* The user declares git and go and the planner infers nodejs and git: git is
\* in both lists and once in the merged one.
C10_SharedPackage ==
  /\ Merged
  /\ cfg.Packages = <<"go", "git">>
  /\ inferred.DevPackages = <<"nodejs", "git">>
  /\ planned.plan.DevPackages = <<"go", "git", "nodejs">>

(* ----------------------- claims: warnings and errors ------------------- *)

\* The call reached BuildPlan and the merged plan carries a warning only: the
\* merge returned no error and the plan is not invalid.
WarningOnly ==
  /\ planned.done /\ planned.err = NoErr
  /\ ~planned.plan.invalid /\ planned.plan.warning

\* The call reached BuildPlan and the merge returned an error or an invalid plan.
HardError == planned.done /\ (planned.err # NoErr \/ planned.plan.invalid)

\* C11: in a Build or a Generate that reaches generateBuildFiles, a merged plan
\* with a warning only has its warning printed and then the build files
\* generated (and Build goes on to the container build when they were); an
\* invalid plan or a merge error reaches neither the generation of the build
\* files nor the container build, and the call returns an error.
C11_WarningsDoNotBlock ==
  call.op \in {"Build", "Generate"} =>
    /\ WarningOnly =>
         /\ InLog("warning") /\ InLog("generate")
         /\ Pos("warning") < Pos("generate")
         /\ call.err \notin {"MergeUserPlan", "plan.Error", "GetBuildPlan"}
         /\ (call.op = "Build" /\ "generate" # call.log[Len(call.log)])
              => InLog("docker.Build")
    /\ HardError =>
         /\ call.err # NoErr
         /\ ~InLog("generate") /\ ~InLog("warning") /\ ~InLog("docker.Build")
         /\ "buildFiles" \notin call.wrote

\* A Build whose merged plan carried a warning went through to the container
\* build.
C11_BuiltWithWarning ==
  /\ call.op = "Build" /\ WarningOnly
  /\ call.err = NoErr
  /\ call.log = <<"generateBuildFiles", "BuildPlan", "warning", "generate", "docker.Build">>

(* ------------------------ claims: no rollback -------------------------- *)

\* The last call failed after its save: in the generation of the shell files
\* or in the installer.
FailedAfterSave ==
  /\ call.op \in {"Add", "Remove"}
  /\ call.err \in {"generate", "apply Nix derivation"}

\* C13: an Add that passed validation and saved the Config and then failed in
\* the shell-file generation or in the installer returns an error, and the
\* packages it added are in the in-memory and in the persisted package list; a
\* Remove that failed there leaves its packages out of both lists.
C13_NoRollback ==
  FailedAfterSave =>
    /\ call.log[1] = "saveCfg"
    /\ disk = cfg
    /\ call.op = "Add" =>
         /\ cfg.Packages = AppendMissing(pre, call.pkgs)
         /\ \A i \in 1..Len(call.pkgs) :
              Contains(cfg.Packages, call.pkgs[i]) /\ Contains(disk.Packages, call.pkgs[i])
    /\ call.op = "Remove" =>
         /\ \A i \in 1..Len(call.pkgs) :
              ~Contains(cfg.Packages, call.pkgs[i]) /\ ~Contains(disk.Packages, call.pkgs[i])
         /\ \A x \in Range(pre) \ Range(call.pkgs) : Contains(disk.Packages, x)

\* The installer failed in an Add of a new package, which is persisted.
C13_AddedThenInstallFailed ==
  /\ call.op = "Add" /\ call.err = "apply Nix derivation"
  /\ Len(call.pkgs) = 1 /\ ~Contains(pre, call.pkgs[1])
  /\ Contains(cfg.Packages, call.pkgs[1])
  /\ Contains(disk.Packages, call.pkgs[1])

(* ------------------------- rendering the shellrc ----------------------- *)

\* One execution of the template.
RenderShellrc ==
  /\ shellrc = <<>>
  /\ shellrc' = Render(ctx)
  /\ UNCHANGED <<ctx, orchVars, findVars, planVars>>

InitRender ==
  /\ ctx \in Contexts
  /\ shellrc = <<>>
  /\ OrchIdle
  /\ FindIdle
  /\ PlanIdle

NextRender == RenderShellrc

SpecRender == InitRender /\ [][NextRender]_vars

HasLine(line) == Contains(shellrc, line)

\* A block is in the file when one of its lines is, its markers included.
PostInitIn ==
  /\ HasLine(<<"# Begin Devbox Post-init Hook">>)
  /\ HasLine(<<"export PS1=\"(devbox) $PS1\"">>)
  /\ HasLine(<<"# End Devbox Post-init Hook">>)
UserHookIn ==
  HasLine(<<"# Begin Devbox User Hook">>) \/ HasLine(<<"# End Devbox User Hook">>)
PlanHookIn ==
  HasLine(<<"# Begin Plan Init Hook">>) \/ HasLine(<<"# End Plan Init Hook">>)
RunScriptIn ==
  \/ HasLine(<<"# Begin Script command">>) \/ HasLine(<<"# End Script command">>)
  \/ HasLine(<<"function run_script {">>)

\* C12: the rendered file always holds the post-init hook block, and it holds
\* the user-hook block, the plan-hook block and the run-script block exactly
\* when the user hook, the plan init hook and the script command are not
\* empty; with all three empty it holds none of the three blocks.
C12_OptionalBlocksIffSet ==
  shellrc # <<>> =>
    /\ PostInitIn
    /\ UserHookIn <=> ctx.UserHook # ""
    /\ PlanHookIn <=> ctx.PlanInitHook # ""
    /\ RunScriptIn <=> ctx.ScriptCommand # ""

\* C12, where it fails: no hook and no script command, and the file holds the
\* markers of the plan-hook block and of the script block with nothing between.
C12_EmptyBlocksRendered ==
  /\ shellrc # <<>>
  /\ ctx.UserHook = "" /\ ctx.PlanInitHook = "" /\ ctx.ScriptCommand = ""
  /\ PostInitIn /\ ~UserHookIn
  /\ PlanHookIn /\ RunScriptIn
  /\ ~HasLine(<<"function run_script {">>)

====
